---------------------------- MODULE Spec2Model ----------------------------
(***************************************************************************)
(* A model of the scope-guard crate.                                       *)
(*                                                                         *)
(*   - src/src/lib.rs: Scope<T, F>, a value and a cleanup closure held in  *)
(*     ManuallyDrop cells, with new / Deref / DerefMut / forget /          *)
(*     into_inner / stack and the Drop implementation that fires the       *)
(*     cleanup.  Specification: Spec.                                      *)
(*   - src/src/async_scope.rs: CatchUnwindFut and the async fn             *)
(*     async_scope, seen as the state machine the scheduler polls.         *)
(*     Specification: AsyncSpec.                                           *)
(***************************************************************************)
EXTENDS Integers, Sequences, FiniteSets, TLC

VARIABLES
    guard,        \* "none" | "live" | "dropped" | "forgotten": the guard object
    val,          \* Scope.val: the guarded value (NoInt before new)
    dtor,         \* Scope.dtor: the closure, outermost layer first
    calls,        \* every closure invocation so far, in order
    how,          \* the operation that ended the guard
    ret,          \* the value into_inner handed to its caller
    lastWritten,  \* the value most recently stored through new / DerefMut
    lastRead,     \* the value most recently seen through Deref
    unwinding,    \* TRUE once a closure panicked out of Scope::drop
    valFate,      \* where each ptr::read copy of the value ended up
    dtorFate,     \* where each ptr::read copy of the closure ended up
    apc,          \* async_scope: the suspension point of the generator
    result,       \* async_scope: `result`, the captured outcome of fut
    trace,        \* async_scope: every step taken so far, in order
    yielded,      \* async_scope: what the latest poll gave the scheduler
    given,        \* async_scope: the arguments the caller passed for dtor
    args,         \* async_scope: `args`, not yet moved into dtor
    futPolls,     \* async_scope: polls of fut that returned Pending
    dtorPolls     \* async_scope: polls of the cleanup that returned Pending

gvars == <<guard, val, dtor, calls, how, ret, lastWritten, lastRead, unwinding,
          valFate, dtorFate>>
avars == <<apc, result, trace, yielded, given, args, futPolls, dtorPolls>>
vars == <<gvars, avars>>

-----------------------------------------------------------------------------
(* Bounds of the model. *)

\* guarded values are 0 .. MaxVal
MaxVal == 2
\* at most MaxStack calls of stack() on one guard
MaxStack == 2
\* each future returns Pending at most MaxPending times
MaxPending == 2
\* the scheduler polls a finished async_scope at most MaxLatePolls times
MaxLatePolls == 1

Values == 0 .. MaxVal
\* no value: before new, before the first read, before into_inner
NoInt == 0 - 1

-----------------------------------------------------------------------------
(* The closures a caller hands to the guard. *)

\* FnOnce(T): the cleanups given to Scope::new; the second one panics
Cleanups == {"cleanup", "cleanup_panic"}
\* FnOnce(&mut T): the steps given to stack(); the last one panics
Steps == {"inc", "dbl", "step_panic"}

Panics(fn) == fn \in {"cleanup_panic", "step_panic"}

\* what a step leaves in the value it borrows mutably
Apply(fn, v) ==
    CASE fn = "inc" -> (v + 1) % (MaxVal + 1)
      [] fn = "dbl" -> (2 * v) % (MaxVal + 1)
      [] OTHER -> v

\* one layer of a closure: idx 0 is the cleanup given to new, idx k the k-th
\* step given to stack
Layer(fn, idx) == [fn |-> fn, idx |-> idx]

\* one invocation: the layer, the value it received, the value it left
Invocation(layer, arg, out) ==
    [fn |-> layer.fn, idx |-> layer.idx, arg |-> arg, out |-> out]

-----------------------------------------------------------------------------
(* Scope<T, F>: src/src/lib.rs *)

\* what invoking a closure did: the invocations made, and whether it panicked
Ran(cs, p) == [calls |-> cs, panicked |-> p]
NoCall == Ran(<< >>, FALSE)

\* Scope::new: both fields stored, nothing invoked
ScopeNew(value, d) == [val |-> value, dtor |-> d]

\* get_value / get_dtor: ptr::read of the field
get_value(v) == v
get_dtor(d) == d

\* Deref / DerefMut: a reference to the value itself
deref(v) == v
deref_mut(v, new) == new

\* the cleanup given to Scope::new, invoked with the value by value
CallCleanup(layer, value) ==
    Ran(<<Invocation(layer, value, value)>>, Panics(layer.fn))

RECURSIVE Call(_, _)

\* the closure stack() builds: dtor(&mut value); current_dtor(value).
\* A panic in the step unwinds out of the closure: current_dtor and value
\* are dropped, current_dtor is not called.
StackedClosure(step, current_dtor, value) ==
    IF Panics(step.fn)
    THEN Ran(<<Invocation(step, value, value)>>, TRUE)
    ELSE LET value2 == Apply(step.fn, value)
             rest == Call(current_dtor, value2)
         IN  Ran(<<Invocation(step, value, value2)>> \o rest.calls,
                 rest.panicked)

\* invoking the closure d (outermost layer first) with value
Call(d, value) ==
    IF Len(d) = 1
    THEN CallCleanup(Head(d), value)
    ELSE StackedClosure(Head(d), Tail(d), value)

\* a drop that fires the cleanup twice
ScopeDropTwice(d, v) ==
    LET once == Call(get_dtor(d), get_value(v))
    IN  Ran(once.calls \o once.calls, once.panicked)

\* Drop::drop: the value and the closure are read out, the closure is called
ScopeDrop(d, v) ==
    LET value == get_value(v)
        func == get_dtor(d)
    IN  Call(func, value)

\* a forget that leaves self to its destructor
forgetThenDrop(d, v) == ScopeDrop(d, v)

\* forget: the closure is read out and dropped uncalled, and mem::forget(self)
\* keeps Drop::drop from running
forget(d, v) == NoCall

\* an into_inner that reads the value and leaves self to its destructor
into_innerThenDrop(d, v) == [value |-> get_value(v), ran |-> ScopeDrop(d, v)]

\* into_inner: the value is read out, then forget
into_inner(d, v) ==
    LET value == get_value(v)
    IN  [value |-> value, ran |-> forget(d, v)]

\* a stack that runs the new step on the value as it composes
stackRunsStep(d, v, step) ==
    ScopeNew(Apply(step, get_value(v)), <<Layer(step, Len(d))>> \o get_dtor(d))

\* stack: closure and value are read out, self is forgotten, and a new guard
\* holds the value and the composed closure
stack(d, v, step) ==
    LET current_dtor == get_dtor(d)
        value == get_value(v)
    IN  ScopeNew(value, <<Layer(step, Len(d))>> \o current_dtor)

\* what an operation did with the guard's two ManuallyDrop fields: each
\* copy read out of val ends "passed" (to the closure, by value), "returned"
\* (to the caller) or "dropped"; each copy read out of dtor ends "called" or
\* "dropped".  A field no copy was read out of is never released: the guard
\* itself releases nothing, its fields are ManuallyDrop.
Released(vs, ds) == [val |-> vs, dtor |-> ds]

\* a drop over plain fields: after func(val) the fields are dropped again
ScopeDropReleasesPlainFields ==
    Released(<<"passed", "dropped">>, <<"called", "dropped">>)

\* Drop::drop: the value is read and passed to func, func is read and called;
\* whether or not func panics, nothing else is released
ScopeDropReleases == Released(<<"passed">>, <<"called">>)

\* forget: self.get_dtor() reads the closure into a temporary that is dropped
\* at once; val is not read, and mem::forget(self) runs no destructor
forgetReleases == Released(<< >>, <<"dropped">>)

\* into_inner: the value is read and returned, the rest is forget
into_innerReleases ==
    Released(<<"returned">> \o forgetReleases.val, forgetReleases.dtor)

\* stack: both reads move into the new guard, self is forgotten
stackReleases == Released(<< >>, << >>)

InitGuard ==
    /\ valFate = << >>
    /\ dtorFate = << >>
    /\ guard = "none"
    /\ val = NoInt
    /\ dtor = << >>
    /\ calls = << >>
    /\ how = "none"
    /\ ret = NoInt
    /\ lastWritten = NoInt
    /\ lastRead = NoInt
    /\ unwinding = FALSE

New ==
    /\ guard = "none"
    /\ \E value \in Values, c \in Cleanups :
          LET g == ScopeNew(value, <<Layer(c, 0)>>)
          IN  /\ val' = g.val
              /\ dtor' = g.dtor
              /\ lastWritten' = value
    /\ guard' = "live"
    /\ UNCHANGED <<calls, how, ret, lastRead, unwinding, valFate, dtorFate,
                   avars>>

Read ==
    /\ guard = "live"
    /\ lastRead' = deref(val)
    /\ UNCHANGED <<guard, val, dtor, calls, how, ret, lastWritten, unwinding,
                   valFate, dtorFate, avars>>

\* a write that first fires the cleanup on the value it overwrites
WriteFiresOnOld ==
    /\ guard = "live"
    /\ \E new \in Values :
          /\ val' = deref_mut(val, new)
          /\ lastWritten' = new
    /\ calls' = calls \o ScopeDrop(dtor, val).calls
    /\ UNCHANGED <<guard, dtor, how, ret, lastRead, unwinding, valFate,
                   dtorFate, avars>>

Write ==
    /\ guard = "live"
    /\ \E new \in Values :
          /\ val' = deref_mut(val, new)
          /\ lastWritten' = new
    /\ UNCHANGED <<guard, dtor, calls, how, ret, lastRead, unwinding, valFate,
                   dtorFate, avars>>

Stack ==
    /\ guard = "live"
    /\ Len(dtor) - 1 < MaxStack
    /\ \E step \in Steps :
          LET g == stack(dtor, val, step)
          IN  /\ val' = g.val
              /\ dtor' = g.dtor
    /\ valFate' = valFate \o stackReleases.val
    /\ dtorFate' = dtorFate \o stackReleases.dtor
    /\ UNCHANGED <<guard, calls, how, ret, lastWritten, lastRead, unwinding,
                   avars>>

Forget ==
    /\ guard = "live"
    /\ LET r == forget(dtor, val)
       IN  /\ calls' = calls \o r.calls
           /\ unwinding' = r.panicked
    /\ valFate' = valFate \o forgetReleases.val
    /\ dtorFate' = dtorFate \o forgetReleases.dtor
    /\ guard' = "forgotten"
    /\ how' = "forget"
    /\ UNCHANGED <<val, dtor, ret, lastWritten, lastRead, avars>>

IntoInner ==
    /\ guard = "live"
    /\ LET r == into_inner(dtor, val)
       IN  /\ ret' = r.value
           /\ calls' = calls \o r.ran.calls
           /\ unwinding' = r.ran.panicked
    /\ valFate' = valFate \o into_innerReleases.val
    /\ dtorFate' = dtorFate \o into_innerReleases.dtor
    /\ guard' = "forgotten"
    /\ how' = "into_inner"
    /\ UNCHANGED <<val, dtor, lastWritten, lastRead, avars>>

\* the guard goes out of scope
Drop ==
    /\ guard = "live"
    /\ LET r == ScopeDrop(dtor, val)
       IN  /\ calls' = calls \o r.calls
           /\ unwinding' = r.panicked
    /\ valFate' = valFate \o ScopeDropReleases.val
    /\ dtorFate' = dtorFate \o ScopeDropReleases.dtor
    /\ guard' = "dropped"
    /\ how' = "drop"
    /\ UNCHANGED <<val, dtor, ret, lastWritten, lastRead, avars>>

-----------------------------------------------------------------------------
(* Properties of the guard, checked under Spec. *)

\* the invocations of the layer registered as idx
InvocationsOf(idx) == {i \in 1 .. Len(calls) : calls[i].idx = idx}

\* the guard's lifetime is over
Ended == guard \in {"dropped", "forgotten"}

\* C1: a guard made by Scope::new that is dropped naturally, never stacked,
\* forgotten or unpacked, has had its cleanup invoked exactly once, and the
\* cleanup received the last value written to the guard.
C1_DropFiresOnceWithLastValue ==
    (how = "drop" /\ Len(dtor) = 1) =>
        /\ Len(calls) = 1
        /\ calls[1].fn = dtor[1].fn
        /\ calls[1].idx = 0
        /\ calls[1].arg = lastWritten

\* scenario A: made over 0, read, written to 1, dropped
C1_Witness ==
    /\ how = "drop"
    /\ Len(dtor) = 1
    /\ lastRead = 0
    /\ lastWritten = 1
    /\ Len(calls) = 1

\* C2: after forget() no closure has been invoked, neither by forget itself
\* nor afterwards.
C2_ForgetNeverFires ==
    how = "forget" => (calls = << >> /\ ~unwinding)

\* scenario B: made over 0, read, written to 1, forgotten
C2_Witness ==
    /\ how = "forget"
    /\ guard = "forgotten"
    /\ lastRead = 0
    /\ lastWritten = 1

\* C3: after into_inner() no closure has been invoked and the caller holds
\* the last value written to the guard.
C3_IntoInnerReturnsLastValue ==
    how = "into_inner" => (calls = << >> /\ ret = lastWritten)

C3_Witness ==
    /\ how = "into_inner"
    /\ lastRead = 0
    /\ lastWritten = 1
    /\ ret = 1

\* C4: every registered closure is invoked at most once; once the guard's
\* lifetime has ended it has been invoked exactly once, unless the guard was
\* ended by forget or into_inner, and then not at all.
C4_ExactlyOnceUnlessDisarmed ==
    /\ \A idx \in 0 .. MaxStack : Cardinality(InvocationsOf(idx)) <= 1
    /\ Ended =>
          \A idx \in 0 .. Len(dtor) - 1 :
              Cardinality(InvocationsOf(idx)) =
                  IF how \in {"forget", "into_inner"} THEN 0 ELSE 1

\* C5: a guard stacked k >= 1 times and dropped naturally runs the k steps
\* most recently stacked first, each receiving the value the one before it
\* left, and then the original cleanup, once, with the value the last step
\* left.
C5_StackedRunInReverseThenCleanup ==
    (how = "drop" /\ Len(dtor) >= 2) =>
        /\ Len(calls) = Len(dtor)
        /\ \A i \in 1 .. Len(calls) :
              /\ calls[i].idx = Len(dtor) - i
              /\ calls[i].fn = dtor[i].fn
              /\ calls[i].arg = IF i = 1 THEN lastWritten ELSE calls[i - 1].out

\* C11: forget() releases the cleanup exactly once, uninvoked, and the owned
\* value is dropped along with the guard: it is neither passed to the cleanup
\* nor kept alive.
C11_ForgetDropsValue ==
    how = "forget" =>
        /\ calls = << >>
        /\ dtorFate = <<"dropped">>
        /\ valFate = <<"dropped">>

\* C13: when the closure panics while Drop::drop runs it, it is not invoked
\* again during the unwind, and the guard releases neither the value nor the
\* closure a second time: the panicking closure has run exactly once.
C13_PanickingCleanupFiresOnce ==
    (how = "drop" /\ unwinding) =>
        /\ calls # << >>
        /\ Panics(calls[Len(calls)].fn)
        /\ Cardinality(InvocationsOf(calls[Len(calls)].idx)) = 1
        /\ \A idx \in 0 .. MaxStack : Cardinality(InvocationsOf(idx)) <= 1
        /\ valFate = <<"passed">>
        /\ dtorFate = <<"called">>

\* a guard over a panicking cleanup, written to 1 and dropped
C13_Witness ==
    /\ how = "drop"
    /\ unwinding
    /\ Len(dtor) = 1
    /\ dtor[1].fn = "cleanup_panic"
    /\ calls = <<Invocation(dtor[1], 1, 1)>>

\* C14: stack() invokes neither the closure already there nor the new step,
\* and the guard it returns holds the value the consumed guard held, over the
\* earlier closure with the new step in front; a stacked guard ended by
\* forget() or into_inner() has run none of its steps nor the cleanup.
C14_StackComposesWithoutRunning ==
    /\ [][(guard = "live" /\ Len(dtor') = Len(dtor) + 1) =>
            /\ guard' = "live"
            /\ val' = val
            /\ Tail(dtor') = dtor
            /\ calls = << >> /\ calls' = << >>
            /\ valFate' = << >> /\ dtorFate' = << >>]_vars
    /\ []((Len(dtor) >= 2 /\ how \in {"forget", "into_inner"}) =>
            /\ calls = << >>
            /\ how = "into_inner" => ret = lastWritten)

\* made over 1, stacked twice with inc and dbl, then unpacked: the caller
\* holds 1
C14_Witness ==
    /\ how = "into_inner"
    /\ Len(dtor) = 3
    /\ dtor[1].fn = "dbl"
    /\ dtor[2].fn = "inc"
    /\ lastWritten = 1
    /\ ret = 1

\* C15: while the guard is live nothing has been invoked or released;
\* Scope::new invokes nothing; a read or a write leaves the stored closure
\* as it is, a read leaves the value as it is and sees it, and a write
\* changes only the value.
C15_LiveGuardIsTransparent ==
    /\ [](guard = "live" =>
            calls = << >> /\ valFate = << >> /\ dtorFate = << >>)
    /\ [][(guard = "none" /\ guard' = "live") =>
            /\ calls' = << >>
            /\ Len(dtor') = 1
            /\ val' = lastWritten'
            /\ how' = how /\ ret' = ret /\ lastRead' = lastRead]_vars
    /\ [][(guard = "live" /\ guard' = "live" /\ Len(dtor') = Len(dtor)) =>
            /\ dtor' = dtor
            /\ calls' = calls
            /\ how' = how /\ ret' = ret /\ unwinding' = unwinding
            /\ lastRead' # lastRead =>
                  val' = val /\ lastRead' = val /\ lastWritten' = lastWritten
            /\ val' # val => lastRead' = lastRead /\ val' = lastWritten']_vars

\* made over some value, written to 2, read, written to 0: still live
C15_Witness ==
    /\ guard = "live"
    /\ Len(dtor) = 1
    /\ lastRead = 2
    /\ lastWritten = 0
    /\ val = 0
    /\ calls = << >>

-----------------------------------------------------------------------------
(* async_scope: src/src/async_scope.rs *)

NoVal == "-"
\* the arguments a caller passes for dtor
Args == {"a1", "a2"}
\* the outputs fut can complete with
Outputs == {"x1", "x2"}
\* the payloads fut can panic with
Payloads == {"p1", "p2"}
\* the payloads dtor(args) and the cleanup future can panic with
DtorPayloads == {"q1"}

\* what a poll, or a call, comes to: tag is "Pending", "Ready", "Panic" or,
\* for a plain call, "Return"; ok is "Ok" or "Err" for a Result; v the
\* value or the panic's payload
Outcome(tag, ok, v) == [tag |-> tag, ok |-> ok, v |-> v]
\* nothing yet: no poll made, no result stored
NoOutcome == Outcome("None", NoVal, NoVal)
Pending == Outcome("Pending", NoVal, NoVal)
Ready(v) == Outcome("Ready", NoVal, v)
ReadyOk(v) == Outcome("Ready", "Ok", v)
ReadyErr(v) == Outcome("Ready", "Err", v)
Panic(v) == Outcome("Panic", NoVal, v)
Return(v) == Outcome("Return", NoVal, v)

\* one step of the run: what was done, and what it came to
Event(ev, o) == [ev |-> ev, tag |-> o.tag, ok |-> o.ok, v |-> o.v]

\* what fut.poll(ctx) may do after n polls that returned Pending
FutOutcomes(n) ==
    (IF n < MaxPending THEN {Pending} ELSE {})
        \cup {Ready(x) : x \in Outputs} \cup {Panic(p) : p \in Payloads}

\* what calling dtor(args) may do
DtorCallOutcomes == {Return(NoVal)} \cup {Panic(q) : q \in DtorPayloads}

\* what polling the future dtor(args) returned may do
DtorOutcomes(n) ==
    (IF n < MaxPending THEN {Pending} ELSE {})
        \cup {Ready(NoVal)} \cup {Panic(q) : q \in DtorPayloads}

\* a wrapper that lets the panic of the inner poll through
CatchUnwindFutNoCatch(inner) ==
    [out |-> CASE inner.tag = "Pending" -> Pending
               [] inner.tag = "Ready" -> ReadyOk(inner.v)
               [] OTHER -> inner,
     events |-> <<Event("fut.poll", inner), Event("CatchUnwindFut.poll", inner)>>]

\* CatchUnwindFut::poll: the inner future is polled once under catch_unwind
\* and its outcome mapped
CatchUnwindFut_poll(inner) ==
    LET out == CASE inner.tag = "Pending" -> Pending
                 [] inner.tag = "Ready" -> ReadyOk(inner.v)
                 [] OTHER -> ReadyErr(inner.v)
    IN  [out |-> out,
         events |-> <<Event("fut.poll", inner),
                      Event("CatchUnwindFut.poll", out)>>]

\* where a poll of async_scope leaves the generator: its suspension point,
\* what the poll gives the scheduler, `result`, `args`, the steps taken
Left(pc, out, res, a, events) ==
    [pc |-> pc, out |-> out, result |-> res, args |-> a, events |-> events]

\* an ending that swallows the captured panic
FinishSwallow(res, a) ==
    Left("Returned", Ready(res.v), res, a, <<Event("return", Ready(res.v))>>)

\* match result: the output is returned, or the captured payload resumed
Finish(res, a) ==
    IF res.ok = "Ok"
    THEN Left("Returned", Ready(res.v), res, a,
              <<Event("return", Ready(res.v))>>)
    ELSE Left("Panicked", Panic(res.v), res, a,
              <<Event("resume_unwind", Panic(res.v))>>)

\* a dtor.await that goes on to the ending while the cleanup is Pending
AwaitDtorNoWait(res, a, dO) ==
    LET f == Finish(res, a)
    IN  IF dO.tag = "Panic"
        THEN Left("Panicked", dO, res, a, <<Event("dtor.poll", dO)>>)
        ELSE Left(f.pc, f.out, res, a, <<Event("dtor.poll", dO)>> \o f.events)

\* a dtor.await that, on Pending, suspends at a point no poll resumes
AwaitDtorStalls(res, a, dO) ==
    LET f == Finish(res, a)
    IN  CASE dO.tag = "Pending" ->
                Left("Stalled", Pending, res, a, <<Event("dtor.poll", dO)>>)
          [] dO.tag = "Panic" ->
                Left("Panicked", dO, res, a, <<Event("dtor.poll", dO)>>)
          [] OTHER ->
                Left(f.pc, f.out, res, a,
                     <<Event("dtor.poll", dO)>> \o f.events)

\* a dtor.await that captures the cleanup's panic and goes on to the ending
AwaitDtorCatches(res, a, dO) ==
    LET f == Finish(res, a)
    IN  IF dO.tag = "Pending"
        THEN Left("AwaitDtor", Pending, res, a, <<Event("dtor.poll", dO)>>)
        ELSE Left(f.pc, f.out, res, a, <<Event("dtor.poll", dO)>> \o f.events)

\* dtor.await: one poll of the cleanup future; Pending suspends the
\* generator, a panic leaves it, Ready goes on to the ending
AwaitDtor(res, a, dO) ==
    CASE dO.tag = "Pending" ->
            Left("AwaitDtor", Pending, res, a, <<Event("dtor.poll", dO)>>)
      [] dO.tag = "Panic" ->
            Left("Panicked", dO, res, a, <<Event("dtor.poll", dO)>>)
      [] OTHER ->
            LET f == Finish(res, a)
            IN  Left(f.pc, f.out, res, a,
                     <<Event("dtor.poll", dO)>> \o f.events)

\* a cleanup that is made only when fut completed normally
CallDtorOnOkOnly(res, a, cO, dO) ==
    IF res.ok = "Ok"
    THEN LET w == AwaitDtor(res, NoVal, dO)
         IN  Left(w.pc, w.out, res, NoVal,
                  <<Event("dtor.call", Return(a))>> \o w.events)
    ELSE Finish(res, a)

\* let dtor = (dtor)(args): args move into the call; a panic of the call
\* leaves the generator, otherwise the future it returned is awaited
CallDtor(res, a, cO, dO) ==
    IF cO.tag = "Panic"
    THEN Left("Panicked", cO, res, NoVal, <<Event("dtor.call", Panic(a))>>)
    ELSE LET w == AwaitDtor(res, NoVal, dO)
         IN  Left(w.pc, w.out, res, NoVal,
                  <<Event("dtor.call", Return(a))>> \o w.events)

\* a run that makes the cleanup while fut is still Pending
AwaitFutEager(res, a, fO, cO, dO) ==
    LET c == CatchUnwindFut_poll(fO)
        n == CallDtor(IF c.out.tag = "Pending" THEN ReadyOk(NoVal) ELSE c.out,
                      a, cO, dO)
    IN  Left(n.pc, n.out, n.result, n.args, c.events \o n.events)

\* let result = CatchUnwindFut(fut).await: one poll of the wrapper; Pending
\* suspends the generator, Ready stores `result` and goes on
AwaitFut(res, a, fO, cO, dO) ==
    LET c == CatchUnwindFut_poll(fO)
    IN  IF c.out.tag = "Pending"
        THEN Left("AwaitFut", Pending, res, a, c.events)
        ELSE LET n == CallDtor(c.out, a, cO, dO)
             IN  Left(n.pc, n.out, n.result, n.args, c.events \o n.events)

\* the polls among events that came to Pending
PendingPolls(events, ev) ==
    Cardinality({i \in 1 .. Len(events) :
                    events[i].ev = ev /\ events[i].tag = "Pending"})

InitAsync ==
    /\ apc = "Unresumed"
    /\ result = NoOutcome
    /\ trace = << >>
    /\ yielded = NoOutcome
    /\ given \in Args
    /\ args = given
    /\ futPolls = 0
    /\ dtorPolls = 0

\* the scheduler's poll moves the generator to where `left` says
Resume(left) ==
    /\ apc' = left.pc
    /\ yielded' = left.out
    /\ result' = left.result
    /\ args' = left.args
    /\ trace' = trace \o left.events
    /\ futPolls' = futPolls + PendingPolls(left.events, "fut.poll")
    /\ dtorPolls' = dtorPolls + PendingPolls(left.events, "dtor.poll")
    /\ given' = given

\* a poll while fut has not settled
PollPrimary ==
    /\ apc \in {"Unresumed", "AwaitFut"}
    /\ \E fO \in FutOutcomes(futPolls), cO \in DtorCallOutcomes,
          dO \in DtorOutcomes(dtorPolls) :
          Resume(AwaitFut(result, args, fO, cO, dO))
    /\ UNCHANGED gvars

\* a poll at the second await that runs the body from the top again
PollCleanupFromTop ==
    /\ apc = "AwaitDtor"
    /\ \E fO \in FutOutcomes(futPolls), cO \in DtorCallOutcomes,
          dO \in DtorOutcomes(dtorPolls) :
          Resume(AwaitFut(result, args, fO, cO, dO))
    /\ UNCHANGED gvars

\* a poll while the cleanup future is awaited
PollCleanup ==
    /\ apc = "AwaitDtor"
    /\ \E dO \in DtorOutcomes(dtorPolls) :
          Resume(AwaitDtor(result, args, dO))
    /\ UNCHANGED gvars

\* a discard that still calls dtor(args), as a guard's destructor would
DiscardCallsDtor ==
    /\ apc \in {"Unresumed", "AwaitFut", "AwaitDtor"}
    /\ apc' = "Dropped"
    /\ trace' = trace \o <<Event("dtor.call", Return(args)),
                           Event("discard", Outcome(apc, NoVal, NoVal))>>
    /\ UNCHANGED <<result, yielded, given, args, futPolls, dtorPolls, gvars>>

\* the scheduler drops the future instead of polling it to completion
Discard ==
    /\ apc \in {"Unresumed", "AwaitFut", "AwaitDtor"}
    /\ apc' = "Dropped"
    /\ trace' = trace \o <<Event("discard", Outcome(apc, NoVal, NoVal))>>
    /\ UNCHANGED <<result, yielded, given, args, futPolls, dtorPolls, gvars>>

\* the places of the steps ev in the trace
Positions(ev) == {i \in 1 .. Len(trace) : trace[i].ev = ev}

\* a late poll that starts the body again
PollFinishedRestarts ==
    /\ apc \in {"Returned", "Panicked"}
    /\ Cardinality(Positions("late.poll")) < MaxLatePolls
    /\ apc' = "Unresumed"
    /\ yielded' = Pending
    /\ trace' = trace \o <<Event("late.poll", Outcome(apc, NoVal, NoVal))>>
    /\ UNCHANGED <<result, given, args, futPolls, dtorPolls, gvars>>

\* a poll of the generator after it returned or panicked: the generator
\* panics and runs none of its body
PollFinished ==
    /\ apc \in {"Returned", "Panicked"}
    /\ Cardinality(Positions("late.poll")) < MaxLatePolls
    /\ yielded' = Panic("resumed after completion")
    /\ trace' = trace \o <<Event("late.poll", Outcome(apc, NoVal, NoVal))>>
    /\ UNCHANGED <<apc, result, given, args, futPolls, dtorPolls, gvars>>

Init == InitGuard /\ InitAsync

Next == New \/ Read \/ Write \/ Stack \/ Forget \/ IntoInner \/ Drop

Spec == Init /\ [][Next]_vars

AsyncNext == PollPrimary \/ PollCleanup \/ Discard \/ PollFinished

AsyncSpec == Init /\ [][AsyncNext]_vars

\* a scheduler that keeps polling the future until it has finished, and
\* neither discards it nor polls it afterwards
FairNext == PollPrimary \/ PollCleanup

FairAsyncSpec ==
    Init /\ [][FairNext]_vars /\ WF_vars(PollPrimary) /\ WF_vars(PollCleanup)


-----------------------------------------------------------------------------
(* Properties of async_scope, checked under AsyncSpec. *)

\* the places of the steps ev that came to tag
PositionsOf(ev, tag) == {i \in Positions(ev) : trace[i].tag = tag}

\* async_scope was polled to its end: it returned or it panicked
Completed == apc \in {"Returned", "Panicked"}

\* the cleanup panicked: the call of dtor, or a poll of the future it made
CleanupPanicked ==
    PositionsOf("dtor.call", "Panic") \cup PositionsOf("dtor.poll", "Panic")
        # {}

\* C6: when fut completes normally with X, async_scope yields Ready only
\* after the cleanup future was polled to Ready, and what it yields is X.
C6_ReadyAfterCleanupWithOutput ==
    /\ \A i \in Positions("return") :
          /\ \E j \in PositionsOf("fut.poll", "Ready") :
                /\ j < i
                /\ trace[j].v = trace[i].v
                /\ \E k \in PositionsOf("dtor.poll", "Ready") : j < k /\ k < i
          /\ Positions("late.poll") = {} => yielded = Ready(trace[i].v)
    /\ (yielded.tag = "Ready") => Positions("return") # {}
    /\ \A j \in PositionsOf("fut.poll", "Ready") :
          /\ Positions("resume_unwind") = {}
          /\ PositionsOf("dtor.poll", "Ready") # {} =>
                \E i \in Positions("return") : trace[i].v = trace[j].v

\* fut was Pending twice and completed with x2, the cleanup was Pending
\* once, and async_scope returned x2
C6_Witness ==
    /\ apc = "Returned"
    /\ yielded = Ready("x2")
    /\ futPolls = 2
    /\ dtorPolls = 1

\* C7: when fut panics with payload p, the cleanup future is still made, and
\* unless the cleanup panics the run ends, after the cleanup was polled to
\* Ready, by re-raising p: the panic is neither swallowed nor replaced.
C7_PanicResumedAfterCleanup ==
    \A j \in PositionsOf("fut.poll", "Panic") :
        /\ \E k \in Positions("dtor.call") : j < k
        /\ Positions("return") = {}
        /\ \A i \in Positions("resume_unwind") :
              /\ trace[i].v = trace[j].v
              /\ \E k \in PositionsOf("dtor.poll", "Ready") : j < k /\ k < i
        /\ (Completed /\ ~CleanupPanicked) =>
              /\ apc = "Panicked"
              /\ Positions("resume_unwind") # {}
              /\ Positions("late.poll") = {} => yielded = Panic(trace[j].v)
        /\ PositionsOf("dtor.poll", "Ready") # {} =>
              Positions("resume_unwind") # {}

\* scenario D: fut panicked with p2 after a Pending poll, the cleanup was
\* Pending once and then Ready, and p2 came out of async_scope
C7_Witness ==
    /\ apc = "Panicked"
    /\ yielded = Panic("p2")
    /\ result = ReadyErr("p2")
    /\ futPolls = 1
    /\ dtorPolls = 1
    /\ PositionsOf("dtor.poll", "Ready") # {}

\* C8: dtor is not called and the cleanup future is not polled before fut
\* has settled, and async_scope neither returns nor re-raises before the
\* cleanup future has returned Ready.
C8_CleanupAfterPrimaryBeforeOutcome ==
    /\ \A k \in Positions("dtor.call") \cup Positions("dtor.poll") :
          /\ \E j \in PositionsOf("CatchUnwindFut.poll", "Ready") : j < k
          /\ \A j \in Positions("fut.poll") : j < k
    /\ \A i \in Positions("return") \cup Positions("resume_unwind") :
          /\ \E k \in PositionsOf("dtor.poll", "Ready") : k < i
          /\ \A k \in Positions("dtor.poll") : k < i
    /\ (yielded.tag = "Ready" \/ (yielded.tag = "Panic" /\ ~CleanupPanicked))
          => PositionsOf("dtor.poll", "Ready") # {}
    /\ result = NoOutcome => Positions("dtor.call") = {}

\* both futures were Pending twice before they settled
C8_Witness ==
    /\ Completed
    /\ futPolls = 2
    /\ dtorPolls = 2
    /\ PositionsOf("dtor.poll", "Ready") # {}

\* C9: in a run polled to completion, by a return or by a panic, dtor was
\* called exactly once, with args; in no run is it called more than once.
C9_DtorCalledExactlyOnce ==
    /\ Cardinality(Positions("dtor.call")) <= 1
    /\ \A k \in Positions("dtor.call") : trace[k].v = given
    /\ Completed => Cardinality(Positions("dtor.call")) = 1

\* fut panicked, the run was polled to its end and once more after it
C9_Witness ==
    /\ apc = "Panicked"
    /\ PositionsOf("fut.poll", "Panic") # {}
    /\ Positions("late.poll") # {}
    /\ Cardinality(Positions("dtor.call")) = 1

\* C10: each poll of CatchUnwindFut polls the inner future exactly once and
\* gives Pending for Pending, Ready(Ok(x)) for Ready(x) and Ready(Err(p)) for
\* a panic with payload p; no panic leaves the wrapper's poll.
C10_CatchUnwindMapsOutcome ==
    /\ \A i \in Positions("CatchUnwindFut.poll") :
          /\ i > 1
          /\ trace[i - 1].ev = "fut.poll"
          /\ trace[i].tag # "Panic"
          /\ trace[i - 1].tag = "Pending" => trace[i] = Event(trace[i].ev, Pending)
          /\ trace[i - 1].tag = "Ready" =>
                trace[i] = Event(trace[i].ev, ReadyOk(trace[i - 1].v))
          /\ trace[i - 1].tag = "Panic" =>
                trace[i] = Event(trace[i].ev, ReadyErr(trace[i - 1].v))
    /\ \A j \in Positions("fut.poll") :
          /\ j < Len(trace)
          /\ trace[j + 1].ev = "CatchUnwindFut.poll"

\* the wrapper was polled three times: Pending, Pending, then a captured
\* panic
C10_Witness ==
    /\ Cardinality(PositionsOf("CatchUnwindFut.poll", "Pending")) = 2
    /\ \E i \in Positions("CatchUnwindFut.poll") : trace[i].ok = "Err"

\* C12: a panic of dtor(args) or of the cleanup future is not captured: it
\* leaves async_scope at that poll; the output of fut is then never returned
\* and a captured payload of fut never resumed: the cleanup's panic is the
\* one that surfaces.
C12_CleanupPanicSurfaces ==
    \A k \in PositionsOf("dtor.call", "Panic")
                \cup PositionsOf("dtor.poll", "Panic") :
        /\ apc = "Panicked"
        /\ Positions("return") = {}
        /\ Positions("resume_unwind") = {}
        /\ \A i \in (k + 1) .. Len(trace) : trace[i].ev = "late.poll"
        /\ Positions("late.poll") = {} =>
              /\ yielded.tag = "Panic"
              /\ yielded.v \in DtorPayloads
              /\ yielded.v # result.v

\* fut panicked with p1 and was captured, the cleanup future was Pending once
\* and then panicked with q1, which is what came out
C12_Witness ==
    /\ result = ReadyErr("p1")
    /\ dtorPolls = 1
    /\ PositionsOf("dtor.poll", "Panic") # {}
    /\ yielded = Panic("q1")

\* the phase an invocation is in
Phase ==
    CASE apc \in {"Unresumed", "AwaitFut"} -> "RunningPrimary"
      [] apc = "AwaitDtor" -> "RunningCleanup"
      [] apc = "Returned" -> "Returning"
      [] apc = "Panicked" /\ Positions("resume_unwind") # {} -> "Repropagating"
      [] OTHER -> "Abandoned"

\* the phase a step of the body belongs to
PhaseRank(ph) ==
    CASE ph = "RunningPrimary" -> 1
      [] ph = "RunningCleanup" -> 2
      [] OTHER -> 3

StepRank(ev) ==
    CASE ev \in {"fut.poll", "CatchUnwindFut.poll"} -> 1
      [] ev \in {"dtor.call", "dtor.poll"} -> 2
      [] ev \in {"return", "resume_unwind"} -> 3
      [] OTHER -> 4

\* C16: an invocation moves through its phases forward only: the primary,
\* then the cleanup, then one ending, which is Returning exactly when fut
\* completed normally and Repropagating exactly when its panic was captured
\* (the cleanup not panicking); no phase is entered again.
C16_PhasesOnlyForward ==
    /\ [][/\ PhaseRank(Phase') >= PhaseRank(Phase)
          /\ PhaseRank(Phase) = 3 => Phase' = Phase]_vars
    /\ [](/\ \A i, j \in 1 .. Len(trace) :
                i < j => StepRank(trace[i].ev) <= StepRank(trace[j].ev)
          /\ Cardinality(Positions("return") \cup Positions("resume_unwind"))
                <= 1
          /\ \A i \in Positions("return") \cup Positions("resume_unwind") :
                Positions("dtor.call") # {}
          /\ Phase = "Returning" => result.ok = "Ok"
          /\ Phase = "Repropagating" => result.ok = "Err"
          /\ (Completed /\ ~CleanupPanicked) =>
                /\ result.ok = "Ok" => Phase = "Returning"
                /\ result.ok = "Err" => Phase = "Repropagating"
                /\ Cardinality(Positions("return")
                                  \cup Positions("resume_unwind")) = 1)

\* a run that suspended in the primary and in the cleanup, re-raised the
\* captured panic, and was polled once more
C16_Witness ==
    /\ Phase = "Repropagating"
    /\ futPolls = 1
    /\ dtorPolls = 1
    /\ Positions("late.poll") # {}

\* the steps that poll fut
PrimarySteps == {"fut.poll", "CatchUnwindFut.poll"}

\* C17: once fut has settled in a poll (Ready, or its panic captured), fut
\* is never polled again: a later poll of the suspended async_scope polls the
\* cleanup future and nothing else, and a poll after the end polls nothing.
C17_PrimaryNeverPolledAgain ==
    /\ [](/\ \A j \in PositionsOf("CatchUnwindFut.poll", "Ready") :
                \A i \in (j + 1) .. Len(trace) : trace[i].ev \notin PrimarySteps
          /\ Cardinality(PositionsOf("fut.poll", "Ready")
                            \cup PositionsOf("fut.poll", "Panic")) <= 1
          /\ result # NoOutcome <=>
                PositionsOf("CatchUnwindFut.poll", "Ready") # {})
    /\ [][result # NoOutcome =>
            /\ result' = result
            /\ \A i \in (Len(trace) + 1) .. Len(trace') :
                  trace'[i].ev \notin PrimarySteps \cup {"dtor.call"}
            /\ (apc = "AwaitDtor" /\ apc' # "Dropped") =>
                  /\ Len(trace') > Len(trace)
                  /\ trace'[Len(trace) + 1].ev = "dtor.poll"
                  /\ Cardinality({i \in (Len(trace) + 1) .. Len(trace') :
                                     trace'[i].ev = "dtor.poll"}) = 1
            /\ Completed =>
                  \A i \in (Len(trace) + 1) .. Len(trace') :
                      trace'[i].ev = "late.poll"]_vars

\* fut settled in the second poll, and two more polls went to the cleanup
\* future alone
C17_Witness ==
    /\ futPolls = 1
    /\ result = ReadyOk("x1")
    /\ Cardinality(Positions("dtor.poll")) = 3
    /\ Cardinality(Positions("fut.poll")) = 2

\* C18: when the async_scope future is discarded while fut is still Pending,
\* dtor is never called and no cleanup future is made or polled; when it is
\* discarded while the cleanup future is Pending, the cleanup is polled no
\* further and the outcome of fut, value or captured panic, never surfaces.
C18_DiscardRunsNothing ==
    /\ [](apc = "Dropped" =>
            /\ Positions("discard") = {Len(trace)}
            /\ yielded.tag \in {"None", "Pending"}
            /\ Positions("return") \cup Positions("resume_unwind") = {}
            /\ trace[Len(trace)].tag \in {"Unresumed", "AwaitFut"} =>
                  /\ Positions("dtor.call") \cup Positions("dtor.poll") = {}
                  /\ result = NoOutcome
                  /\ args = given
            /\ trace[Len(trace)].tag = "AwaitDtor" =>
                  /\ result # NoOutcome
                  /\ yielded = Pending
                  /\ trace[Len(trace) - 1] = Event("dtor.poll", Pending)
                  /\ PositionsOf("dtor.poll", "Ready") = {})
    /\ [][apc = "Dropped" => UNCHANGED vars]_vars

\* discarded while fut was Pending
C18_WitnessPrimary ==
    /\ apc = "Dropped"
    /\ futPolls = 2
    /\ result = NoOutcome

\* discarded while the cleanup future was Pending, fut's panic captured
C18_Witness ==
    /\ apc = "Dropped"
    /\ dtorPolls = 2
    /\ result = ReadyErr("p1")

\* C19: under a scheduler that keeps polling, with fut settling and the
\* cleanup future becoming Ready after finitely many polls, async_scope
\* eventually ends: it returns the output of fut or re-raises its panic.
C19_EventuallyTerminates ==
    <>(\/ CleanupPanicked
       \/ /\ apc = "Returned"
          /\ result.ok = "Ok"
          /\ yielded = Ready(result.v)
       \/ /\ apc = "Panicked"
          /\ result.ok = "Err"
          /\ yielded = Panic(result.v))

\* both futures were Pending as often as they may be, and the run returned
C19_Witness ==
    /\ apc = "Returned"
    /\ futPolls = MaxPending
    /\ dtorPolls = MaxPending
    /\ yielded = Ready(result.v)

=============================================================================
